---- MODULE Spec2Model ----
(***************************************************************************)
(* Hair-V: the App component's state (App.tsx, latest revision) driving    *)
(* the two gateway calls of services/geminiService.ts (latest revision),   *)
(* analyzeScalpImage and generateRestorationPreview.                       *)
(*                                                                         *)
(* Strings are sequences of tokens, so that building a data URI, stripping *)
(* its prefix and String.includes are computed, not assumed.               *)
(* A nullable value is <<>> (null) or <<v>>.                               *)
(*                                                                         *)
(* Scheduling follows the browser's event loop: user events and upstream   *)
(* answers are tasks; the continuation of an awaited promise runs in the   *)
(* same task as the answer that settles it; a promise rejected before any  *)
(* request was sent settles in a microtask, before the next user event.    *)
(***************************************************************************)
EXTENDS Integers, Sequences, FiniteSets, TLC

VARIABLES
    apiKey,          \* geminiService.ts: const apiKey = process.env.API_KEY || ''
    language,        \* App state: 'ar' | 'en'
    appState,        \* App state: AppState
    image,           \* App state: string | null
    analysisResult,  \* App state: AnalysisResult | null
    simulationImage, \* App state: string | null
    errorMsg,        \* App state: string | null
    alertMsg,        \* the text of the open window.alert dialog, <<>> when none is open
    readers,         \* FileReaders started by handleFileUpload, not yet ended
    calls,           \* gateway calls started and not yet settled, in start order
    last             \* the gateway call settled last: its answer and outcome

vars == <<apiKey, language, appState, image, analysisResult, simulationImage,
          errorMsg, alertMsg, readers, calls, last>>

----------------------------------------------------------------------------
\* Bounds of the model.

\* Asynchronous operations (FileReader reads and gateway calls) that may be
\* pending at the same time.
MaxPending == 2

----------------------------------------------------------------------------
\* Values.

None == <<>>

Some(v) == <<v>>

IDLE == "IDLE"

ANALYZING == "ANALYZING"

RESULTS == "RESULTS"

GENERATING_PREVIEW == "GENERATING_PREVIEW"

PREVIEW_READY == "PREVIEW_READY"

ERROR == "ERROR"

AppStates == {IDLE, ANALYZING, RESULTS, GENERATING_PREVIEW, PREVIEW_READY, ERROR}

Languages == {"ar", "en"}

\* "data:" + mime + ";base64," + payload
DataUri(mime, data) == <<"data:", mime, ";base64,", data>>

\* The data URL of a file named .png whose bytes no image decoder accepts.
Undecodable == DataUri("image/png", "NOIMAGE")

\* What FileReader.readAsDataURL hands to onloadend: the data URL of the
\* chosen file, whatever its bytes are, or null when the read failed.
ReadResults == {Some(DataUri("image/png", "SCALP1")),
                Some(DataUri("image/gif", "SCALP2")),
                Some(Undecodable),
                None}

\* The style prompts of the style buttons; the dashboard's button uses the first.
DefaultStyle == "natural"

StylePrompts == {DefaultStyle, "dense"}

----------------------------------------------------------------------------
\* Errors: an Error's name and its message.

Err(name, message) == [name |-> name, message |-> message]

NoErr == Err("", <<>>)

\* String.prototype.includes on the message's tokens.
includes(message, token) == \E i \in 1..Len(message) : message[i] = token

MissingKeyError == Err("Error", <<"API Key", " is missing">>)

\* base64.replace / base64.match on null
NullImageError == Err("TypeError", <<"Cannot read properties of null">>)

NoDataError == Err("Error", <<"No data returned from analysis.">>)

JsonSyntaxError == Err("SyntaxError", <<"Unexpected token">>)

\* A message that leaves the reason out.
GenerationStoppedNoReason(reason) ==
    Err("Error", <<"Generation stopped.", " Try a different photo.">>)

\* `Generation stopped due to: ${candidate.finishReason}. Try a different photo.`
GenerationStoppedError(reason) ==
    Err("Error", <<"Generation stopped due to: ", reason, ". Try a different photo.">>)

NoImageError == Err("Error", <<"Model returned no image data.">>)

\* Rejections of ai.models.generateContent: rate limit / quota, a refused
\* key, a transport failure.
QuotaError == Err("ApiError", <<"429", "RESOURCE_EXHAUSTED", "quota">>)

ForbiddenError == Err("ApiError", <<"403", "PERMISSION_DENIED">>)

NetworkError == Err("TypeError", <<"Failed to fetch">>)

UpstreamErrors == {QuotaError, ForbiddenError, NetworkError}

IsQuota(error) == includes(error.message, "429")

----------------------------------------------------------------------------
\* Upstream responses.

AssessmentResult(min, max) ==
    [norwoodScale |-> 3, totalGrafts |-> 2000,
     estimatedCostMin |-> min, estimatedCostMax |-> max]

TextOrdered == "{estimatedCostMin:1600,estimatedCostMax:3000}"

TextInverted == "{estimatedCostMin:3000,estimatedCostMax:1600}"

\* response.text of an Analyze response: absent or empty (""), not JSON,
\* the JSON literal null, or an object.
ResponseTexts == {"", "Sorry, I cannot", "null", TextOrdered, TextInverted}

\* JSON.parse: the value, or a SyntaxError.
JSONParse(text) ==
    CASE text = TextOrdered  -> [ok |-> TRUE, value |-> Some(AssessmentResult(1600, 3000))]
      [] text = TextInverted -> [ok |-> TRUE, value |-> Some(AssessmentResult(3000, 1600))]
      [] text = "null"       -> [ok |-> TRUE, value |-> None]
      [] OTHER               -> [ok |-> FALSE, value |-> None]

TextPart == [inline |-> FALSE, mimeType |-> "", data |-> ""]

\* An inlineData part; mimeType "" and data "" stand for an absent field.
InlinePart(mime, data) == [inline |-> TRUE, mimeType |-> mime, data |-> data]

\* candidate.content?.parts: undefined (None) or the list of parts.
PartLists == {None,
              Some(<<>>),
              Some(<<TextPart>>),
              Some(<<InlinePart("image/png", "")>>),
              Some(<<InlinePart("", "IMG0")>>),
              Some(<<TextPart, InlinePart("image/jpeg", "IMG1"), InlinePart("image/png", "IMG2")>>),
              Some(<<InlinePart("image/png", "IMG2"), TextPart, InlinePart("image/jpeg", "IMG1")>>)}

\* finishReason: absent (""), normal, a content-moderation stop, other stops.
ModerationReasons == {"SAFETY"}

FinishReasons == {"", "STOP", "MAX_TOKENS"} \cup ModerationReasons

Candidate(reason, parts) == [finishReason |-> reason, parts |-> parts]

Response(text, candidates) == [text |-> text, candidates |-> candidates]

\* The responses to Analyze: one per text, and the response that moderation
\* blocked, which has a candidate stopped for that reason and no text.
AnalyzeResponses ==
    {Response(t, <<>>) : t \in ResponseTexts}
    \cup {Response("", <<Candidate(r, None)>>) : r \in ModerationReasons}

GenerateResponses ==
    {Response("", <<>>)}
    \cup {Response("", <<Candidate(r, p)>>) : r \in FinishReasons, p \in PartLists}

\* What the upstream service answers to one request.
Answer(kind, response, error) == [kind |-> kind, response |-> response, error |-> error]

NoAnswer == Answer("none", Response("", <<>>), NoErr)

ErrorAnswers == {Answer("error", Response("", <<>>), e) : e \in UpstreamErrors}

AnalyzeAnswers == ErrorAnswers \cup {Answer("response", r, NoErr) : r \in AnalyzeResponses}

GenerateAnswers == ErrorAnswers \cup {Answer("response", r, NoErr) : r \in GenerateResponses}

Answers(op) == IF op = "analyze" THEN AnalyzeAnswers ELSE GenerateAnswers

----------------------------------------------------------------------------
\* What a gateway function does once generateContent has answered: it returns
\* (its promise resolves with a value), it throws (its promise rejects), or it
\* waits and sends the request again.

Resolved(value) == [kind |-> "resolved", value |-> value, error |-> NoErr, delay |-> 0]

Rejected(error) == [kind |-> "rejected", value |-> None, error |-> error, delay |-> 0]

SendAgain(delay) == [kind |-> "retry", value |-> None, error |-> NoErr, delay |-> delay]

----------------------------------------------------------------------------
\* geminiService.ts: the helpers and the two gateway functions.

\* base64.replace(/^data:image\/(png|jpeg|jpg|webp);base64,/, '')
stripBase64Prefix(base64) ==
    IF /\ Len(base64) >= 3
       /\ base64[1] = "data:"
       /\ base64[2] \in {"image/png", "image/jpeg", "image/jpg", "image/webp"}
       /\ base64[3] = ";base64,"
    THEN SubSeq(base64, 4, Len(base64))
    ELSE base64

\* The media types that /image\/[a-zA-Z]+/ matches in full, among those used.
LetterMimeTypes == {"image/png", "image/jpeg", "image/jpg", "image/webp",
                    "image/gif", "image/bmp"}

\* base64.match(/^data:(image\/[a-zA-Z]+);base64,/) ? match[1] : 'image/jpeg'
getMimeType(base64) ==
    IF /\ Len(base64) >= 3
       /\ base64[1] = "data:"
       /\ base64[2] \in LetterMimeTypes
       /\ base64[3] = ";base64,"
    THEN base64[2]
    ELSE "image/jpeg"

Request(model, mimeType, data, prompt) ==
    [model |-> model, mimeType |-> mimeType, data |-> data, prompt |-> prompt]

NoRequest == Request("", "", <<>>, "")

\* What a gateway function does before its first await: it throws, or it
\* sends one generateContent request.
Throw(error) == [throws |-> TRUE, error |-> error, request |-> NoRequest]

Send(request) == [throws |-> FALSE, error |-> NoErr, request |-> request]

\* analyzeScalpImage up to the await of generateContent.
analyzeScalpImageStart(base64Image, lang) ==
    IF apiKey = "" THEN Throw(MissingKeyError)
    ELSE IF base64Image = None THEN Throw(NullImageError)
    ELSE Send(Request("gemini-2.5-flash",
                      getMimeType(base64Image[1]),
                      stripBase64Prefix(base64Image[1]),
                      IF lang = "ar" THEN "Arabic" ELSE "English"))

\* A try block whose if has no else: a response without text falls through
\* and the function returns undefined.
analyzeScalpImageParseNoElse(response) ==
    IF response.text # "" /\ ~JSONParse(response.text).ok
    THEN Rejected(JsonSyntaxError)
    ELSE Resolved(JSONParse(response.text).value)

\* The try block after the await: the response's text parsed, or an Error.
analyzeScalpImageParse(response) ==
    IF response.text # ""
    THEN IF JSONParse(response.text).ok
         THEN Resolved(JSONParse(response.text).value)
         ELSE Rejected(JsonSyntaxError)
    ELSE Rejected(NoDataError)

\* A catch block that sends the request again for whatever generateContent
\* rejected with.
analyzeScalpImageRetryingAll(answer) ==
    IF answer.kind = "error" THEN SendAgain(2000)
    ELSE analyzeScalpImageParse(answer.response)

\* analyzeScalpImage from the answer of generateContent on: the try block's
\* rest, and the catch block, which logs and rethrows.
analyzeScalpImageResume(answer) ==
    IF answer.kind = "error" THEN Rejected(answer.error)
    ELSE analyzeScalpImageParse(answer.response)

\* A generateRestorationPreview without the check of the API key.
generateRestorationPreviewStartNoKeyCheck(originalBase64, stylePrompt) ==
    IF originalBase64 = None THEN Throw(NullImageError)
    ELSE Send(Request("gemini-2.5-flash-image",
                      getMimeType(originalBase64[1]),
                      stripBase64Prefix(originalBase64[1]),
                      stylePrompt))

\* generateRestorationPreview up to the await of generateContent.
generateRestorationPreviewStart(originalBase64, stylePrompt) ==
    IF apiKey = "" THEN Throw(MissingKeyError)
    ELSE IF originalBase64 = None THEN Throw(NullImageError)
    ELSE Send(Request("gemini-2.5-flash-image",
                      getMimeType(originalBase64[1]),
                      stripBase64Prefix(originalBase64[1]),
                      stylePrompt))

\* The data URI returned for a part.
PartDataUri(part) ==
    DataUri(IF part.mimeType # "" THEN part.mimeType ELSE "image/png", part.data)

\* A loop that takes the first part with inlineData, whatever its data.
RECURSIVE FirstInlineData(_)
FirstInlineData(parts) ==
    IF parts = <<>> THEN None
    ELSE IF Head(parts).inline THEN Some(PartDataUri(Head(parts)))
         ELSE FirstInlineData(Tail(parts))

\* A loop that keeps the last part with inlineData and data.
RECURSIVE LastImage(_)
LastImage(parts) ==
    IF parts = <<>> THEN None
    ELSE IF LastImage(Tail(parts)) # None THEN LastImage(Tail(parts))
         ELSE IF Head(parts).inline /\ Head(parts).data # ""
              THEN Some(PartDataUri(Head(parts)))
              ELSE None

\* The loop over parts: the first part with inlineData and non-empty data.
RECURSIVE FirstImage(_)
FirstImage(parts) ==
    IF parts = <<>> THEN None
    ELSE IF Head(parts).inline /\ Head(parts).data # ""
         THEN Some(PartDataUri(Head(parts)))
         ELSE FirstImage(Tail(parts))

\* response.candidates?.[0]
FirstCandidate(response) ==
    IF response.candidates = <<>> THEN None ELSE Some(response.candidates[1])

\* The scan of the response for an image, as both revisions do it.
ScanForImage(candidate) ==
    IF candidate # None /\ candidate[1].parts # None
         /\ FirstImage(candidate[1].parts[1]) # None
    THEN Resolved(FirstImage(candidate[1].parts[1])[1])
    ELSE Rejected(NoImageError)

\* The earlier revision (lines 135-145): no check of finishReason.
generateRestorationPreviewUnchecked(answer) ==
    IF answer.kind = "error" THEN Rejected(answer.error)
    ELSE ScanForImage(FirstCandidate(answer.response))

\* generateRestorationPreview from the answer of generateContent on.
generateRestorationPreviewResume(answer) ==
    IF answer.kind = "error" THEN Rejected(answer.error)
    ELSE LET candidate == FirstCandidate(answer.response) IN
         IF candidate # None /\ candidate[1].finishReason # ""
              /\ candidate[1].finishReason # "STOP"
         THEN Rejected(GenerationStoppedError(candidate[1].finishReason))
         ELSE ScanForImage(candidate)

----------------------------------------------------------------------------
\* Gateway calls under way.

\* A gateway call that has not settled: the operation, the request sent (if
\* any), what the calling handler's closure holds (its language, its
\* isRegenerating), whether the call awaits the upstream answer ("request") or
\* has thrown before sending anything ("throw"), the error thrown, the number
\* of requests sent and the backoff delays waited so far.
Call(op, start, lang, isRegenerating) ==
    [op |-> op, request |-> start.request, lang |-> lang,
     isRegenerating |-> isRegenerating,
     pending |-> IF start.throws THEN "throw" ELSE "request",
     error |-> start.error,
     requests |-> IF start.throws THEN 0 ELSE 1,
     delays |-> <<>>]

\* Gateway functions that share one client, which rejects a request answered
\* while another call is pending.
StepOnSharedClient(op, answer) ==
    IF Len(calls) > 1 THEN Rejected(QuotaError)
    ELSE IF op = "analyze" THEN analyzeScalpImageResume(answer)
    ELSE generateRestorationPreviewResume(answer)

\* The function's step on an answer to its request.
Step(op, answer) ==
    IF op = "analyze" THEN analyzeScalpImageResume(answer)
    ELSE generateRestorationPreviewResume(answer)

\* The call waits for the delay and sends its request again.
Resend(call, delay) ==
    [call EXCEPT !.requests = @ + 1, !.delays = Append(@, delay)]

Remove(seq, i) == SubSeq(seq, 1, i - 1) \o SubSeq(seq, i + 1, Len(seq))

Pending == Len(readers) + Len(calls)

\* A promise rejected before any await: its continuation is queued as a
\* microtask, which runs before any other event.
MicrotaskPending == \E i \in 1..Len(calls) : calls[i].pending = "throw"

----------------------------------------------------------------------------
\* The gateway functions called directly, their results observed in `last`.

Settled(call, answer, outcome) ==
    [op |-> call.op, answer |-> answer, outcome |-> outcome,
     requests |-> call.requests, delays |-> call.delays]

NothingSettled == Settled(Call("none", Throw(NoErr), "", FALSE), NoAnswer, Rejected(NoErr))

\* analyzeScalpImage(base64Image, lang) is called.
analyzeScalpImage(base64Image, lang) ==
    /\ ~MicrotaskPending
    /\ Pending < MaxPending
    /\ calls' = Append(calls, Call("analyze", analyzeScalpImageStart(base64Image, lang),
                                   lang, FALSE))
    /\ UNCHANGED <<apiKey, language, appState, image, analysisResult,
                   simulationImage, errorMsg, alertMsg, readers, last>>

\* generateRestorationPreview(originalBase64, stylePrompt) is called.
generateRestorationPreview(originalBase64, stylePrompt) ==
    /\ ~MicrotaskPending
    /\ Pending < MaxPending
    /\ calls' = Append(calls,
           Call("generate", generateRestorationPreviewStart(originalBase64, stylePrompt),
                "en", FALSE))
    /\ UNCHANGED <<apiKey, language, appState, image, analysisResult,
                   simulationImage, errorMsg, alertMsg, readers, last>>

\* The promise of a call that threw before its await rejects.
PromiseRejectsEarly(i) ==
    /\ i \in 1..Len(calls)
    /\ calls[i].pending = "throw"
    /\ last' = Settled(calls[i], NoAnswer, Rejected(calls[i].error))
    /\ calls' = Remove(calls, i)
    /\ UNCHANGED <<apiKey, language, appState, image, analysisResult,
                   simulationImage, errorMsg, alertMsg, readers>>

\* generateContent answers the request of call i and the function resumes.
PromiseSettles(i, answer) ==
    /\ ~MicrotaskPending
    /\ i \in 1..Len(calls)
    /\ calls[i].pending = "request"
    /\ answer \in Answers(calls[i].op)
    /\ LET step == Step(calls[i].op, answer) IN
         IF step.kind = "retry"
         THEN /\ calls' = [calls EXCEPT ![i] = Resend(calls[i], step.delay)]
              /\ UNCHANGED last
         ELSE /\ last' = Settled(calls[i], answer, step)
              /\ calls' = Remove(calls, i)
    /\ UNCHANGED <<apiKey, language, appState, image, analysisResult,
                   simulationImage, errorMsg, alertMsg, readers>>

----------------------------------------------------------------------------
\* App.tsx: the handlers.

\* The user-facing strings of the handlers, by text and language.
Message(text, lang) == <<text, lang>>

analysisFailed == "Failed to analyze image. Please try a clearer photo."

apiKeyMissing == "API Key is missing or invalid. Please configure it in your deployment settings."

simulationFailed == "Simulation generation failed."

\* alert() is modal: while its dialog is open the page runs no handler and no
\* continuation.
AlertOpen == alertMsg # None

\* The user closes the dialog; alert() returns and the handler ends.
dismissAlert ==
    /\ AlertOpen
    /\ alertMsg' = None
    /\ UNCHANGED <<apiKey, language, appState, image, analysisResult,
                   simulationImage, errorMsg, readers, calls, last>>

\* setLanguage(prev => prev === 'en' ? 'ar' : 'en')
toggleLanguage ==
    /\ ~MicrotaskPending
    /\ ~AlertOpen
    /\ language' = IF language = "en" THEN "ar" ELSE "en"
    /\ UNCHANGED <<apiKey, appState, image, analysisResult, simulationImage,
                   errorMsg, alertMsg, readers, calls, last>>

\* The file input is rendered in IDLE only. A chosen file starts a FileReader,
\* whose onloadend closure holds the language of this render.
handleFileUpload ==
    /\ ~MicrotaskPending
    /\ ~AlertOpen
    /\ appState = IDLE
    /\ Pending < MaxPending
    /\ readers' = Append(readers, language)
    /\ UNCHANGED <<apiKey, language, appState, image, analysisResult,
                   simulationImage, errorMsg, alertMsg, calls, last>>

\* startAnalysis up to its await: the state it sets and the call it starts.
startAnalysis(imgData, lang) ==
    /\ appState' = ANALYZING
    /\ errorMsg' = None
    /\ calls' = Append(calls, Call("analyze", analyzeScalpImageStart(imgData, lang),
                                   lang, FALSE))

\* An onloadend that decodes the file first and gives up on a file that it
\* cannot decode.
readerOnLoadEndDecoding(i, result) ==
    /\ ~MicrotaskPending
    /\ ~AlertOpen
    /\ i \in 1..Len(readers)
    /\ image' = result
    /\ IF result = Some(Undecodable)
       THEN UNCHANGED <<appState, errorMsg, calls>>
       ELSE startAnalysis(result, readers[i])
    /\ readers' = Remove(readers, i)
    /\ UNCHANGED <<apiKey, language, analysisResult, simulationImage, alertMsg, last>>

\* reader.onloadend: setImage(reader.result); startAnalysis(reader.result)
readerOnLoadEnd(i, result) ==
    /\ ~MicrotaskPending
    /\ ~AlertOpen
    /\ i \in 1..Len(readers)
    /\ image' = result
    /\ startAnalysis(result, readers[i])
    /\ readers' = Remove(readers, i)
    /\ UNCHANGED <<apiKey, language, analysisResult, simulationImage, alertMsg, last>>

\* The dashboard and its button are rendered when appState is RESULTS and
\* analysisResult is set.
GenerateButtonShown ==
    /\ appState = RESULTS
    /\ analysisResult # None

\* The style buttons are rendered with the preview and disabled while
\* appState is GENERATING_PREVIEW (disabled={isRegenerating}).
StyleButtonsEnabled ==
    /\ appState = PREVIEW_READY
    /\ image # None
    /\ simulationImage # None

\* The click that calls handleGeneratePreview with this style prompt.
GenerateClicked(stylePrompt) ==
    IF stylePrompt = DefaultStyle
    THEN GenerateButtonShown \/ StyleButtonsEnabled
    ELSE StyleButtonsEnabled

\* A handleGeneratePreview without its first line, if (!image) return.
handleGeneratePreviewNoGuard(stylePrompt) ==
    /\ ~MicrotaskPending
    /\ ~AlertOpen
    /\ GenerateClicked(stylePrompt)
    /\ Pending < MaxPending
    /\ appState' = GENERATING_PREVIEW
    /\ calls' = Append(calls,
           Call("generate", generateRestorationPreviewStart(image, stylePrompt),
                language, appState = PREVIEW_READY))
    /\ UNCHANGED <<apiKey, language, image, analysisResult, simulationImage,
                   errorMsg, alertMsg, readers, last>>

\* handleGeneratePreview up to its await.
handleGeneratePreview(stylePrompt) ==
    /\ ~MicrotaskPending
    /\ ~AlertOpen
    /\ GenerateClicked(stylePrompt)
    /\ IF image = None
       THEN UNCHANGED <<appState, calls>>
       ELSE /\ Pending < MaxPending
            /\ appState' = GENERATING_PREVIEW
            /\ calls' = Append(calls,
                   Call("generate", generateRestorationPreviewStart(image, stylePrompt),
                        language, appState = PREVIEW_READY))
    /\ UNCHANGED <<apiKey, language, image, analysisResult, simulationImage,
                   errorMsg, alertMsg, readers, last>>

\* The header's logo and its "new analysis" button.
handleReset ==
    /\ ~MicrotaskPending
    /\ ~AlertOpen
    /\ image' = None
    /\ analysisResult' = None
    /\ simulationImage' = None
    /\ appState' = IDLE
    /\ errorMsg' = None
    /\ UNCHANGED <<apiKey, language, alertMsg, readers, calls, last>>

\* A catch block that shows the message of the error it caught.
startAnalysisResumeRawMessage(call, outcome) ==
    IF outcome.kind = "resolved"
    THEN /\ analysisResult' = outcome.value
         /\ appState' = RESULTS
         /\ UNCHANGED <<errorMsg, simulationImage, alertMsg>>
    ELSE /\ errorMsg' = Some(outcome.error.message)
         /\ appState' = ERROR
         /\ UNCHANGED <<analysisResult, simulationImage, alertMsg>>

\* The rest of startAnalysis once analyzeScalpImage has settled.
startAnalysisResume(call, outcome) ==
    IF outcome.kind = "resolved"
    THEN /\ analysisResult' = outcome.value
         /\ appState' = RESULTS
         /\ UNCHANGED <<errorMsg, simulationImage, alertMsg>>
    ELSE /\ errorMsg' =
              Some(IF outcome.error.message # <<>>
                      /\ (includes(outcome.error.message, "API Key")
                          \/ includes(outcome.error.message, "403"))
                   THEN Message(apiKeyMissing, call.lang)
                   ELSE Message(analysisFailed, call.lang))
         /\ appState' = ERROR
         /\ UNCHANGED <<analysisResult, simulationImage, alertMsg>>

\* A catch block that only logs the error.
handleGeneratePreviewResumeLogOnly(call, outcome) ==
    IF outcome.kind = "resolved"
    THEN /\ simulationImage' = Some(outcome.value)
         /\ appState' = PREVIEW_READY
         /\ UNCHANGED <<errorMsg, analysisResult, alertMsg>>
    ELSE UNCHANGED <<appState, errorMsg, analysisResult, simulationImage, alertMsg>>

\* A catch block that goes back to RESULTS whatever the call was started from.
handleGeneratePreviewResumeAlwaysResults(call, outcome) ==
    IF outcome.kind = "resolved"
    THEN /\ simulationImage' = Some(outcome.value)
         /\ appState' = PREVIEW_READY
         /\ UNCHANGED <<errorMsg, analysisResult, alertMsg>>
    ELSE /\ appState' = RESULTS
         /\ alertMsg' = Some(Message(simulationFailed, call.lang))
         /\ UNCHANGED <<errorMsg, analysisResult, simulationImage>>

\* The catch block of the earlier revision of App.tsx, which also calls
\* setErrorMsg.
handleGeneratePreviewResumeSetsErrorMsg(call, outcome) ==
    IF outcome.kind = "resolved"
    THEN /\ simulationImage' = Some(outcome.value)
         /\ appState' = PREVIEW_READY
         /\ UNCHANGED <<errorMsg, analysisResult, alertMsg>>
    ELSE /\ errorMsg' = Some(Message("Failed to generate preview. Please try again.",
                                      call.lang))
         /\ appState' = IF ~call.isRegenerating THEN RESULTS ELSE PREVIEW_READY
         /\ alertMsg' = Some(Message(simulationFailed, call.lang))
         /\ UNCHANGED <<analysisResult, simulationImage>>

\* The rest of handleGeneratePreview once generateRestorationPreview has settled.
handleGeneratePreviewResume(call, outcome) ==
    IF outcome.kind = "resolved"
    THEN /\ simulationImage' = Some(outcome.value)
         /\ appState' = PREVIEW_READY
         /\ UNCHANGED <<errorMsg, analysisResult, alertMsg>>
    ELSE /\ appState' = IF ~call.isRegenerating THEN RESULTS ELSE PREVIEW_READY
         /\ alertMsg' = Some(Message(simulationFailed, call.lang))
         /\ UNCHANGED <<errorMsg, analysisResult, simulationImage>>

\* Call i settles with this outcome and the handler awaiting it resumes.
Settle(i, outcome) ==
    /\ calls' = Remove(calls, i)
    /\ IF calls[i].op = "analyze"
       THEN startAnalysisResume(calls[i], outcome)
       ELSE handleGeneratePreviewResume(calls[i], outcome)
    /\ UNCHANGED <<apiKey, language, image, readers, last>>

\* A call that threw before sending a request rejects; its handler resumes.
ThrowSettles(i) ==
    /\ i \in 1..Len(calls)
    /\ calls[i].pending = "throw"
    /\ Settle(i, Rejected(calls[i].error))

\* The upstream service answers the request of call i; the gateway function
\* resumes after its await, and then the handler awaiting it.
UpstreamAnswers(i, answer) ==
    /\ ~MicrotaskPending
    /\ ~AlertOpen
    /\ i \in 1..Len(calls)
    /\ calls[i].pending = "request"
    /\ answer \in Answers(calls[i].op)
    /\ LET step == Step(calls[i].op, answer) IN
         IF step.kind = "retry"
         THEN /\ calls' = [calls EXCEPT ![i] = Resend(calls[i], step.delay)]
              /\ UNCHANGED <<apiKey, language, appState, image, analysisResult,
                             simulationImage, errorMsg, alertMsg, readers, last>>
         ELSE Settle(i, step)

----------------------------------------------------------------------------
\* The specifications.

Init ==
    /\ apiKey \in {"", "AIza-key"}
    /\ language = "ar"
    /\ appState = IDLE
    /\ image = None
    /\ analysisResult = None
    /\ simulationImage = None
    /\ errorMsg = None
    /\ alertMsg = None
    /\ readers = <<>>
    /\ calls = <<>>
    /\ last = NothingSettled

\* The handlers tell two answers apart only by the step the gateway function
\* takes on them: one answer for each step.
AnswersByStep(op) ==
    {CHOOSE a \in Answers(op) : Step(op, a) = s : s \in {Step(op, b) : b \in Answers(op)}}

AnalyzeAnswersByStep == AnswersByStep("analyze")

GenerateAnswersByStep == AnswersByStep("generate")

\* The application: the user's events and the upstream answers.
Next ==
    \/ toggleLanguage
    \/ handleFileUpload
    \/ \E i \in 1..Len(readers), result \in ReadResults : readerOnLoadEnd(i, result)
    \/ \E stylePrompt \in StylePrompts : handleGeneratePreview(stylePrompt)
    \/ handleReset
    \/ dismissAlert
    \/ \E i \in 1..Len(calls) : ThrowSettles(i)
    \/ \E i \in 1..Len(calls) :
         \E answer \in IF calls[i].op = "analyze" THEN AnalyzeAnswersByStep
                       ELSE GenerateAnswersByStep :
           UpstreamAnswers(i, answer)

Spec == Init /\ [][Next]_vars

\* The upstream service answers the request of call i.
Answered(i) ==
    /\ i \in 1..Len(calls)
    /\ \E answer \in IF calls[i].op = "analyze" THEN AnalyzeAnswersByStep
                     ELSE GenerateAnswersByStep :
         UpstreamAnswers(i, answer)

\* The application with an upstream service that answers every request: the
\* microtask of a call that threw runs, the oldest request is answered
\* however often a dialog holds the page up, and an open dialog is closed.
LiveSpec ==
    /\ Spec
    /\ WF_vars(\E i \in 1..Len(calls) : ThrowSettles(i))
    /\ SF_vars(Answered(1))
    /\ WF_vars(dismissAlert)

\* The gateway functions alone: called with every argument, answered with
\* every answer.
GatewayNext ==
    \/ \E base64Image \in ReadResults, lang \in Languages :
           analyzeScalpImage(base64Image, lang)
    \/ \E originalBase64 \in ReadResults, stylePrompt \in StylePrompts :
           generateRestorationPreview(originalBase64, stylePrompt)
    \/ \E i \in 1..Len(calls) : PromiseRejectsEarly(i)
    \/ \E i \in 1..Len(calls) : \E answer \in Answers(calls[i].op) :
           PromiseSettles(i, answer)

GatewaySpec == Init /\ [][GatewayNext]_vars

----------------------------------------------------------------------------
\* Properties of the application (Spec).

\* C1: at most one gateway call (Analyze or Generate) is started and not yet
\* resolved or rejected, in every interleaving of the user's events and the
\* upstream answers.
AtMostOneCallInFlight == Len(calls) <= 1

SpecifiedTransitions ==
    {<<IDLE, ANALYZING>>, <<ANALYZING, RESULTS>>, <<ANALYZING, ERROR>>,
     <<RESULTS, GENERATING_PREVIEW>>, <<GENERATING_PREVIEW, PREVIEW_READY>>,
     <<GENERATING_PREVIEW, RESULTS>>, <<PREVIEW_READY, GENERATING_PREVIEW>>}

\* C2: every change of appState, apart from a reset's change to IDLE, is one
\* of the transitions of the specified state machine.
OnlySpecifiedTransitions ==
    [][appState' # appState =>
          (appState' = IDLE \/ <<appState, appState'>> \in SpecifiedTransitions)]_vars

\* C13: the message shown for a missing API key is shown for no other
\* failure: whenever errorMsg is the missing-key message, no key is configured.
MissingKeyMessageOnlyForMissingKey ==
    (errorMsg # None /\ errorMsg[1][1] = apiKeyMissing) => apiKey = ""

\* generateContent rejects, or the gateway function rejects on its response.
FailsOn(op, answer) == answer.kind = "error" \/ Step(op, answer).kind = "rejected"

\* The outcomes of a call that fails on the answer of generateContent.
FailedAnalyzeSteps ==
    {Step("analyze", a) : a \in {b \in AnalyzeAnswers : FailsOn("analyze", b)}}

FailedGenerateSteps ==
    {Step("generate", a) : a \in {b \in GenerateAnswers : FailsOn("generate", b)}}

\* The outcomes with which this call can fail: the error it threw before its
\* request, or a failure on the answer to its request.
FailureOutcomes(call) ==
    IF call.pending = "throw" THEN {Rejected(call.error)}
    ELSE IF call.op = "analyze" THEN FailedAnalyzeSteps
    ELSE FailedGenerateSteps

\* The step is the failure of call i: the call settles with a failure and the
\* handler awaiting it resumes.
Fails(i) ==
    /\ calls' = Remove(calls, i)
    /\ \E outcome \in FailureOutcomes(calls[i]) : Settle(i, outcome)

\* C14: no failure of a gateway call is swallowed: the step in which a call
\* fails leaves appState out of ANALYZING and GENERATING_PREVIEW and shows a
\* message, errorMsg for Analyze and the alert for Generate.
NoFailureSwallowed ==
    [][\A i \in 1..Len(calls) :
          Fails(i)
          => /\ appState' \notin {ANALYZING, GENERATING_PREVIEW}
             /\ IF calls[i].op = "analyze" THEN errorMsg' # None
                ELSE alertMsg' # None]_vars

NoFailureSwallowedWitness ==
    /\ apiKey # ""
    /\ appState = ERROR
    /\ errorMsg = Some(Message(analysisFailed, "ar"))

\* The fixed messages of startAnalysis, in both languages.
FixedMessages ==
    {Message(text, lang) : text \in {analysisFailed, apiKeyMissing}, lang \in Languages}

\* C15: errorMsg is always null or one of the fixed localized messages, never
\* the message of the error that was caught.
ErrorMsgIsFixedMessage == errorMsg = None \/ errorMsg[1] \in FixedMessages

ErrorMsgIsFixedMessageWitness ==
    /\ apiKey # ""
    /\ appState = ERROR
    /\ errorMsg = Some(Message(apiKeyMissing, "en"))

\* C16: the step in which a Generate call fails sets appState to the ready
\* state the call was started from, RESULTS for a first generation and
\* PREVIEW_READY for a regeneration, and leaves simulationImage and
\* analysisResult as they were.
GenerateFailureRestoresReadyState ==
    [][\A i \in 1..Len(calls) :
          (calls[i].op = "generate" /\ Fails(i))
          => /\ appState' = IF calls[i].isRegenerating THEN PREVIEW_READY ELSE RESULTS
             /\ UNCHANGED <<simulationImage, analysisResult>>]_vars

GenerateFailureRestoresReadyStateWitness ==
    /\ AlertOpen
    /\ appState = PREVIEW_READY
    /\ simulationImage # None
    /\ analysisResult # None

\* C17 as claimed: the step in which a first generation fails ends in
\* RESULTS with errorMsg set.
FirstGenerationFailureSetsErrorMsg ==
    [][\A i \in 1..Len(calls) :
          (calls[i].op = "generate" /\ ~calls[i].isRegenerating /\ Fails(i))
          => (appState' = RESULTS /\ errorMsg' # None)]_vars

\* C17 as amended: the step in which a first generation fails ends in RESULTS
\* with the failure reported by the alert; errorMsg is left as it was.
FirstGenerationFailureAlerts ==
    [][\A i \in 1..Len(calls) :
          (calls[i].op = "generate" /\ ~calls[i].isRegenerating /\ Fails(i))
          => /\ appState' = RESULTS
             /\ alertMsg' = Some(Message(simulationFailed, calls[i].lang))
             /\ UNCHANGED errorMsg]_vars

FirstGenerationFailureAlertsWitness ==
    /\ AlertOpen
    /\ appState = RESULTS
    /\ errorMsg = None
    /\ simulationImage = None
    /\ analysisResult # None

\* C18: the analysisResult that the application stores has
\* estimatedCostMax >= estimatedCostMin.
CostRangeOrdered ==
    analysisResult # None
    => analysisResult[1].estimatedCostMax >= analysisResult[1].estimatedCostMin

\* The request carries this data URL as it was read from the file.
Carries(request, dataUrl) ==
    /\ request.data = stripBase64Prefix(dataUrl)
    /\ request.mimeType = getMimeType(dataUrl)

\* C19: no request carries an uploaded file as it was read: every file of
\* ReadResults is a PNG or a GIF, which a preprocessing step that encodes to
\* JPEG changes.
NoRequestCarriesRawUpload ==
    \A i \in 1..Len(calls) :
        calls[i].pending = "request"
        => \A r \in ReadResults \ {None} : ~Carries(calls[i].request, r[1])

\* The width in pixels of the image of a data URL, 0 when it holds no image.
Width(dataUrl) ==
    CASE dataUrl[4] = "SCALP1" -> 800
      [] dataUrl[4] = "SCALP2" -> 2048
      [] OTHER -> 0

\* C20: the image that the upload hands on is at most 1024 pixels wide.
ImageWidthWithinBound == image # None => Width(image[1]) <= 1024

\* C21: a file that cannot be decoded is handed on unchanged and nothing is
\* thrown on the way: while it is the image held and appState is ANALYZING, an
\* Analyze call is pending whose request carries the file as it was read (or,
\* without API key, that threw the missing-key error).
UndecodableImageStillAnalyzed ==
    (image = Some(Undecodable) /\ appState = ANALYZING)
    => \E i \in 1..Len(calls) :
         /\ calls[i].op = "analyze"
         /\ IF apiKey = "" THEN calls[i].error = MissingKeyError
            ELSE calls[i].pending = "request" /\ Carries(calls[i].request, Undecodable)

UndecodableImageStillAnalyzedWitness ==
    /\ image = Some(Undecodable)
    /\ appState = ANALYZING
    /\ Len(calls) = 1
    /\ calls[1].pending = "request"
    /\ calls[1].request.data = <<"NOIMAGE">>

\* C24: analysisResult and simulationImage belong to the image held: the step
\* in which a call settles and sets one of them is the step of a call whose
\* request carries the image held (no image is held after a reset).
ResultsBelongToImageHeld ==
    [][\A i \in 1..Len(calls) :
          (/\ calls' = Remove(calls, i)
           /\ (analysisResult' # analysisResult \/ simulationImage' # simulationImage))
          => (image = None \/ Carries(calls[i].request, image[1]))]_vars

\* C25: in RESULTS, image and analysisResult are set.
ResultsHasImageAndAnalysis ==
    appState = RESULTS => (image # None /\ analysisResult # None)

\* C26: in PREVIEW_READY, image and simulationImage are set.
PreviewReadyHasImages ==
    appState = PREVIEW_READY => (image # None /\ simulationImage # None)

\* The state that a reset leaves.
Cleared ==
    /\ appState = IDLE
    /\ image = None
    /\ analysisResult = None
    /\ simulationImage = None
    /\ errorMsg = None

\* C27: the state that a reset leaves stays as it is until the read of an
\* uploaded file ends: no other step changes appState or the four fields.
StaysClearedUntilUpload ==
    [][(Cleared /\ Len(readers') >= Len(readers)) => Cleared']_vars

\* C29: the payload of every request is the bare base64 data, the data-URI
\* prefix removed, whatever image type the data URI declares.
PayloadIsBareBase64 ==
    \A i \in 1..Len(calls) :
        calls[i].pending = "request" => calls[i].request.data[1] # "data:"

\* C30: a generate click while no image is held is a no-op: no step taken
\* while image is null starts a Generate call or enters GENERATING_PREVIEW, and
\* the click itself changes nothing.
NoGenerateWithoutImage ==
    [][image = None
       => /\ (Len(calls') > Len(calls) => calls'[Len(calls')].op # "generate")
          /\ (appState' = GENERATING_PREVIEW => appState = GENERATING_PREVIEW)]_vars

NoGenerateWithoutImageWitness ==
    /\ image = None
    /\ GenerateButtonShown
    /\ ENABLED handleGeneratePreview(DefaultStyle)
    /\ calls = <<>>

\* C22: every call runs to completion: from ANALYZING the application
\* reaches RESULTS or ERROR, and from GENERATING_PREVIEW it reaches
\* PREVIEW_READY or RESULTS, unless the user resets (IDLE).
CallsRunToCompletion ==
    /\ (appState = ANALYZING) ~> (appState \in {RESULTS, ERROR, IDLE})
    /\ (appState = GENERATING_PREVIEW) ~> (appState \in {PREVIEW_READY, RESULTS, IDLE})

CallsRunToCompletionWitness ==
    /\ appState = GENERATING_PREVIEW
    /\ Len(calls) = 2
    /\ calls[1].op = "analyze"
    /\ calls[2].op = "generate"
    /\ calls[2].pending = "request"

----------------------------------------------------------------------------
\* Properties of the gateway functions (GatewaySpec).

\* The call settled last sent a request and failed with a quota failure.
LastFailedOnQuota ==
    /\ last.op # "none"
    /\ last.outcome.kind = "rejected"
    /\ IsQuota(last.outcome.error)

\* C3: a call that fails with a quota failure has made the maximum number of
\* retries plus one attempts (3 retries, 4 requests), never a single one.
QuotaFailureAfterAllAttempts == LastFailedOnQuota => last.requests = 3 + 1

\* C4: the delays waited before the retries of a quota-failed call are
\* 2000 ms doubled each time: 2000, 4000, 8000.
QuotaFailureBackoffDoubles == LastFailedOnQuota => last.delays = <<2000, 4000, 8000>>

\* The call settled last sent a request and failed with another failure than
\* a quota failure: an upstream rejection, a missing or malformed text, an
\* abnormal stop or a response without image.
LastFailedNotOnQuota ==
    /\ last.op # "none"
    /\ last.answer.kind # "none"
    /\ last.outcome.kind = "rejected"
    /\ ~IsQuota(last.outcome.error)

\* C5: a call that fails with a failure that is not a quota failure has made
\* exactly one upstream request and has waited for no backoff delay.
NonQuotaFailureNotRetried ==
    LastFailedNotOnQuota => (last.requests = 1 /\ last.delays = <<>>)

NonQuotaFailureNotRetriedWitness ==
    /\ LastFailedNotOnQuota
    /\ last.op = "analyze"
    /\ last.outcome.error \in {NetworkError, JsonSyntaxError, NoDataError}
    /\ last.requests = 1

\* The call settled last is a Generate call answered with a response that has
\* a first candidate.
LastGenerateCandidate ==
    /\ last.op = "generate"
    /\ last.answer.kind = "response"
    /\ last.answer.response.candidates # <<>>

LastCandidate == last.answer.response.candidates[1]

\* The indices of the candidate's parts that carry inline image data.
ImageParts(candidate) ==
    IF candidate.parts = None THEN {}
    ELSE {i \in 1..Len(candidate.parts[1]) :
            candidate.parts[1][i].inline /\ candidate.parts[1][i].data # ""}

\* C7: Generate on a response whose first candidate stopped for content
\* moderation fails, naming that reason, and returns no image, whatever the
\* response's parts are.
SafetyStopFails ==
    (LastGenerateCandidate /\ LastCandidate.finishReason \in ModerationReasons)
    => /\ last.outcome.kind = "rejected"
       /\ last.outcome.value = None
       /\ includes(last.outcome.error.message, LastCandidate.finishReason)

SafetyStopFailsWitness ==
    /\ LastGenerateCandidate
    /\ LastCandidate.finishReason = "SAFETY"
    /\ ImageParts(LastCandidate) # {}
    /\ last.outcome.kind = "rejected"

\* C8: Generate on a response that stopped normally (STOP) and has no part
\* with inline image data fails with the no-image failure.
NoImageFails ==
    (/\ LastGenerateCandidate
     /\ LastCandidate.finishReason = "STOP"
     /\ ImageParts(LastCandidate) = {})
    => last.outcome = Rejected(NoImageError)

NoImageFailsWitness ==
    /\ LastGenerateCandidate
    /\ LastCandidate.finishReason = "STOP"
    /\ LastCandidate.parts = Some(<<InlinePart("image/png", "")>>)
    /\ last.outcome.kind = "rejected"

\* The same answer with another finishReason.
WithFinishReason(answer, reason) ==
    [answer EXCEPT !.response.candidates[1].finishReason = reason]

\* C9: Generate on a response whose finishReason is abnormal and no
\* content-moderation reason fails with a failure that carries the reason and
\* differs from the failure raised for a content-moderation reason.
OtherStopCarriesReason ==
    (/\ LastGenerateCandidate
     /\ LastCandidate.finishReason \notin {"", "STOP"} \cup ModerationReasons)
    => /\ last.outcome.kind = "rejected"
       /\ includes(last.outcome.error.message, LastCandidate.finishReason)
       /\ \A m \in ModerationReasons :
            last.outcome.error #
                generateRestorationPreviewResume(WithFinishReason(last.answer, m)).error

OtherStopCarriesReasonWitness ==
    /\ LastGenerateCandidate
    /\ LastCandidate.finishReason = "MAX_TOKENS"
    /\ last.outcome.kind = "rejected"

\* The first part, in response order, that carries inline image data.
FirstImagePart(candidate) ==
    candidate.parts[1][CHOOSE i \in ImageParts(candidate) :
                           \A j \in ImageParts(candidate) : i <= j]

LastCompletedWithImage ==
    /\ LastGenerateCandidate
    /\ LastCandidate.finishReason = "STOP"
    /\ ImageParts(LastCandidate) # {}

\* C10 as claimed: Generate on a normally completed response returns
\* "data:" + the mime type + ";base64," + the payload of the first part that
\* carries inline image data.
ReturnsFirstImageWithItsMimeType ==
    LastCompletedWithImage
    => last.outcome = Resolved(DataUri(FirstImagePart(LastCandidate).mimeType,
                                       FirstImagePart(LastCandidate).data))

\* C10 as amended: the mime type is the part's, or image/png when the part
\* declares none.
ReturnsFirstImage ==
    LastCompletedWithImage
    => last.outcome =
         Resolved(DataUri(IF FirstImagePart(LastCandidate).mimeType = "" THEN "image/png"
                          ELSE FirstImagePart(LastCandidate).mimeType,
                          FirstImagePart(LastCandidate).data))

ReturnsFirstImageWitness ==
    /\ LastCompletedWithImage
    /\ Cardinality(ImageParts(LastCandidate)) = 2
    /\ 1 \notin ImageParts(LastCandidate)
    /\ last.outcome = Resolved(DataUri("image/jpeg", "IMG1"))

\* The call settled last is an Analyze call that generateContent answered
\* with a response.
LastAnalyzeResponse ==
    /\ last.op = "analyze"
    /\ last.answer.kind = "response"

\* C11: Analyze resolves with the value parsed from the response's text when
\* the text is present and well-formed JSON; when the text is missing, empty
\* or no JSON it fails with a parse failure and resolves with no value.
ParsedOrParseFailure ==
    LastAnalyzeResponse
    => IF last.answer.response.text \in {"null", TextOrdered, TextInverted}
       THEN last.outcome = Resolved(JSONParse(last.answer.response.text).value)
       ELSE /\ last.outcome.kind = "rejected"
            /\ last.outcome.value = None
            /\ last.outcome.error \in {NoDataError, JsonSyntaxError}

ParsedOrParseFailureWitness ==
    /\ LastAnalyzeResponse
    /\ last.answer.response.text = "Sorry, I cannot"
    /\ last.outcome = Rejected(JsonSyntaxError)

\* The response that generateContent answered with was blocked by moderation.
Blocked(answer) ==
    /\ answer.kind = "response"
    /\ answer.response.candidates # <<>>
    /\ answer.response.candidates[1].finishReason \in ModerationReasons

\* C12: a content-safety rejection of Analyze reaches the caller as another
\* failure than every generic failure of Analyze (one that is no quota
\* failure and no content-safety rejection), so the caller can tell them apart.
AnalyzeFailureKindsDistinct ==
    (LastAnalyzeResponse /\ Blocked(last.answer))
    => /\ last.outcome.kind = "rejected"
       /\ \A a \in AnalyzeAnswers :
            (/\ ~Blocked(a)
             /\ analyzeScalpImageResume(a).kind = "rejected"
             /\ ~IsQuota(analyzeScalpImageResume(a).error))
            => analyzeScalpImageResume(a).error # last.outcome.error

\* The outcome of the call settled last, from its own arguments, the API key
\* and the answer to its own request.
OutcomeOfOwnCall ==
    IF last.requests = 0
    THEN Rejected(IF apiKey = "" THEN MissingKeyError ELSE NullImageError)
    ELSE IF last.op = "analyze" THEN analyzeScalpImageResume(last.answer)
    ELSE generateRestorationPreviewResume(last.answer)

MissingKeySendsNothing ==
    apiKey = ""
    => /\ \A i \in 1..Len(calls) : calls[i].requests = 0
       /\ last.op # "none" => (last.outcome = Rejected(MissingKeyError) /\ last.requests = 0)

MissingKeySendsNothingWitness ==
    /\ apiKey = ""
    /\ last.op = "generate"
    /\ last.outcome = Rejected(MissingKeyError)
    /\ last.requests = 0

====
